---- MODULE Spec2Model ----
(***************************************************************************)
(* Model of the web-shell runtime that web2candroid.py emits as            *)
(* MainActivity.kt: the file-chooser bridge, the navigation logic driven   *)
(* by connectivity and page-load events, the splash overlay, the exit       *)
(* guard, the permission sequencer and the teardown.                       *)
(* All handlers run on the single UI thread, so each handler is one        *)
(* atomic action.                                                          *)
(***************************************************************************)
EXTENDS Integers, Sequences, FiniteSets, TLC

VARIABLES
    \* ---- file uploader system (MainActivity.kt fields) ----
    filePathCallback,   \* the stored ValueCallback: 0 is null, else a callback id
    nextCb,             \* number of callbacks the WebView has handed over so far
    pickers,            \* pickers launched and not yet returned, by requesting callback id
    fcLog,              \* order of the calls the file-chooser code makes
    \* ---- navigation and state configuration ----
    created,            \* onCreate has run
    isFinishing,        \* Activity.isFinishing
    avail,              \* networks that currently provide INTERNET (host state)
    notified,           \* networks the NetworkCallback has reported available
    lastEvent,          \* most recent connectivity callback delivered
    url,                \* myWebView.url
    navUrl,             \* target of the web view's current navigation
    phase,              \* progress of that navigation
    lastLiveUrl,
    isOffline,
    progressVisible,    \* progressBar.visibility == View.VISIBLE
    lastRemoteStart,    \* history: URL of the latest non-asset page start, NoUrl if none
    \* ---- splash overlay ----
    hasSplash,          \* the shell was generated with a splash image
    splashVisible,      \* splashLayout.visibility == View.VISIBLE
    animRunning,        \* a fade animation has been started and has not ended
    animStarted,        \* number of fade animations started in this session
    \* ---- exit guard ----
    doubleBackToExitPressedOnce,
    exitTimers,         \* pending disarm runnables: ms until each is due, in posting order
    historyDepth,       \* back-history entries of the web view (canGoBack iff > 0)
    sinceBack,          \* history: ms since the previous back-action (capped), NoTime if none
    prevRoot,           \* history: the previous back-action found no back-history
    \* ---- permission sequencer ----
    sdk,                \* Build.VERSION.SDK_INT of the host
    graceTimer,         \* ms until the permission runnable is due, NotPosted or Fired
    sinceBoot,          \* history: ms since onCreate (capped), NoTime before it
    launched,           \* the permission requests launched, in order
    batchPending,       \* the batch was launched and its result is not yet delivered
    batchResult,        \* the delivered result for the location permissions, <<>> before
    bgPending,          \* the background-location request awaits its result
    bgGranted,          \* ACCESS_BACKGROUND_LOCATION is granted
    \* ---- teardown ----
    isDestroyed,        \* Activity.isDestroyed
    subscribed,         \* the host holds the registration of networkCallback
    raised,             \* an exception escaped the unregistration in onDestroy
    caught,             \* history: the unregistration threw and onDestroy caught it
    \* ---- connectivity monitor, history ----
    availDelivered,     \* Available handled since connectivity last changed (saturating)
    lostDelivered,      \* Lost handled since connectivity last changed (saturating)
    \* ---- capability bridge ----
    host,               \* "android" or "ios": the shell the web content runs in
    hardware,           \* the optional hardware the device has, among torch and biometric
    btAdapter,          \* the Bluetooth adapter: "none", "off" or "on"
    uiQueue,            \* runnables posted to the UI thread and not yet run
    offUi,              \* capabilities that changed activity state on the bridge thread
    terminated,         \* the iOS process has exited
    windowFlags,        \* window flags set, among SECURE and KEEP_SCREEN_ON
    promptShown,        \* a biometric prompt is on screen
    enableRequested,    \* the Bluetooth enable dialog was started
    torchOn,            \* the torch is lit
    \* ---- generator (main of web2candroid.py) ----
    pc,                 \* position of the run of main
    workDir,            \* the build work directory exists
    wgetPresent,        \* the mirroring command can be started
    tree,               \* what the mirroring command leaves in temp_dl, in os.walk order
    gradlePresent,      \* shutil.which("gradle") finds the build tool
    debugOk,            \* gradle assembleDebug exits with status 0
    releaseOk,          \* gradle bundleRelease exits with status 0
    assets,             \* names at the top level of the asset directory
    buildStarted,       \* build_android_native was entered
    \* ---- observation of the last handler that ran ----
    last

vars == <<filePathCallback, nextCb, pickers, fcLog,
          created, isFinishing, avail, notified, lastEvent, url, navUrl, phase,
          lastLiveUrl, isOffline, progressVisible, lastRemoteStart,
          hasSplash, splashVisible, animRunning, animStarted,
          doubleBackToExitPressedOnce, exitTimers, historyDepth, sinceBack, prevRoot,
          sdk, graceTimer, sinceBoot, launched, batchPending, batchResult, bgPending,
          bgGranted,
          isDestroyed, subscribed, raised, caught, availDelivered, lostDelivered,
          host, hardware, btAdapter, uiQueue, offUi, terminated, windowFlags, promptShown,
          enableRequested, torchOn,
          pc, workDir, wgetPresent, tree, gradlePresent, debugOk, releaseOk, assets,
          buildStarted, last>>

fileVars == <<filePathCallback, nextCb, pickers, fcLog>>
navVars == <<created, isFinishing, avail, notified, lastEvent, url, navUrl, phase,
             lastLiveUrl, isOffline, progressVisible, lastRemoteStart, last>>
splashVars == <<hasSplash, splashVisible, animRunning, animStarted>>
exitVars == <<doubleBackToExitPressedOnce, exitTimers, historyDepth, sinceBack, prevRoot>>
permVars == <<sdk, graceTimer, sinceBoot, launched, batchPending, batchResult, bgPending,
              bgGranted>>
lifeVars == <<isDestroyed, subscribed, raised, caught>>
monVars == <<availDelivered, lostDelivered>>
bridgeVars == <<host, hardware, btAdapter, uiQueue, offUi, terminated, windowFlags,
                promptShown, enableRequested, torchOn>>
genVars == <<pc, workDir, wgetPresent, tree, gradlePresent, debugOk, releaseOk, assets,
             buildStarted>>
extVars == <<bridgeVars, genVars>>

(***************************************************************************)
(* Bounds of the model.                                                    *)
(***************************************************************************)
MaxCallbacks == 3
MaxAnimations == 3
MaxHistory == 2
MaxDeliveries == 2
MaxQueue == 1

(***************************************************************************)
(* FILE UPLOADER SYSTEM                                                    *)
(***************************************************************************)
NullCb == 0
Callbacks == 1..MaxCallbacks

\* One entry of fcLog: the call made, the callback it concerns, its value.
Ev(e, c, v) == [ev |-> e, cb |-> c, val |-> v]

\* filePathCallback?.onReceiveValue(v): a call only when the field is non-null.
OnReceiveValue(log, c, v) ==
    IF c = NullCb THEN log ELSE Append(log, Ev("onReceiveValue", c, v))

\* The value the launcher callback hands to the stored callback.
PickerValue(resultOk, hasData) ==
    IF resultOk /\ hasData THEN "uris" ELSE "null"

\* Variant of onShowFileChooser that stores the new callback without first
\* resolving the stored one.
OnShowFileChooser_NoResolve(launchThrows) ==
    /\ ~isDestroyed
    /\ nextCb < MaxCallbacks
    /\ LET c == nextCb + 1
           l2 == Append(fcLog, Ev("store", c, "null"))
       IN  /\ nextCb' = c
           /\ IF launchThrows
              THEN /\ filePathCallback' = NullCb
                   /\ pickers' = pickers
                   /\ fcLog' = Append(l2, Ev("return", c, "false"))
              ELSE /\ filePathCallback' = c
                   /\ pickers' = pickers \cup {c}
                   /\ fcLog' = Append(Append(l2, Ev("launch", c, "null")),
                                      Ev("return", c, "true"))
    /\ UNCHANGED <<navVars, splashVars, exitVars, permVars, lifeVars, monVars, extVars>>

\* onShowFileChooser(webView, filePathCallback, fileChooserParams); launchThrows
\* is whether fileChooserLauncher.launch(intent) raises.
OnShowFileChooser(launchThrows) ==
    /\ ~isDestroyed
    /\ nextCb < MaxCallbacks
    /\ LET c == nextCb + 1
           l1 == OnReceiveValue(fcLog, filePathCallback, "null")
           l2 == Append(l1, Ev("store", c, "null"))
       IN  /\ nextCb' = c
           /\ IF launchThrows
              THEN /\ filePathCallback' = NullCb
                   /\ pickers' = pickers
                   /\ fcLog' = Append(l2, Ev("return", c, "false"))
              ELSE /\ filePathCallback' = c
                   /\ pickers' = pickers \cup {c}
                   /\ fcLog' = Append(Append(l2, Ev("launch", c, "null")),
                                      Ev("return", c, "true"))
    /\ UNCHANGED <<navVars, splashVars, exitVars, permVars, lifeVars, monVars, extVars>>

\* The ActivityResult callback of fileChooserLauncher, for the picker that was
\* launched for request p.
FileChooserResult(p, resultOk, hasData) ==
    /\ ~isDestroyed
    /\ p \in pickers
    /\ pickers' = pickers \ {p}
    /\ fcLog' = Append(OnReceiveValue(fcLog, filePathCallback, PickerValue(resultOk, hasData)),
                       Ev("result", p, PickerValue(resultOk, hasData)))
    /\ filePathCallback' = NullCb
    /\ UNCHANGED <<nextCb, navVars, splashVars, exitVars, permVars, lifeVars, monVars, extVars>>

\* Number of onReceiveValue calls made on callback c.
Resolutions(c) ==
    Cardinality({i \in 1..Len(fcLog) : fcLog[i].ev = "onReceiveValue" /\ fcLog[i].cb = c})

\* Position of the first entry of kind e for callback c; 0 when there is none.
FirstPos(e, c) ==
    LET S == {i \in 1..Len(fcLog) : fcLog[i].ev = e /\ fcLog[i].cb = c}
    IN  IF S = {} THEN 0 ELSE CHOOSE i \in S : \A j \in S : i <= j

\* What onShowFileChooser returned for callback c ("none" before it is handed over).
Returned(c) ==
    IF FirstPos("return", c) = 0 THEN "none" ELSE fcLog[FirstPos("return", c)].val

\* Callbacks the bridge accepted (returned true for) and has not resolved.
Pending == {c \in Callbacks : Returned(c) = "true" /\ Resolutions(c) = 0}

(***************************************************************************)
(* NAVIGATION & STATE CONFIGURATION                                        *)
(* A URL is the sequence of its "/"-separated segments; NoUrl is null.     *)
(***************************************************************************)
NoUrl == <<>>
LIVE_URL == <<"https:", "", "live.example", "">>
OTHER_URL == <<"https:", "", "other.example", "page">>
LOCAL_URL == <<"file:", "", "", "android_asset", "www", "index.html">>
LOCAL_PAGE == <<"file:", "", "", "android_asset", "www", "about.html">>
Urls == {LIVE_URL, OTHER_URL, LOCAL_URL, LOCAL_PAGE}

Nets == {"wifi", "cell"}

\* The optional hardware whose absence the bridge code can meet.
Hardware == {"torch", "biometric"}

\* Delays of the two postDelayed calls, in ms, and the marks of a timer that
\* is not pending.
GRACE_DELAY == 5000
EXIT_WINDOW == 2000
NotPosted == -1
Fired == -2
NoTime == -1

\* Build.VERSION_CODES.Q and the API levels requestFullPermissions tests.
API_Q == 29
API_33 == 33
API_34 == 34

\* Variant of the prefix test that knows only the fallback document itself.
StartsWithAsset_IndexOnly(u) == u = LOCAL_URL

\* url.startsWith("file:///android_asset/")
StartsWithAsset(u) ==
    /\ Len(u) > 4
    /\ SubSeq(u, 1, 4) = <<"file:", "", "", "android_asset">>

\* isNetworkAvailable(): the active network exists and provides INTERNET.
IsNetworkAvailable == avail # {}

\* showToast(msg): the text that reaches the screen ("" when none does).
ShowToast(msg) == IF ~isFinishing /\ ~isDestroyed THEN msg ELSE ""

\* What a handler did: its name, the URL it was about, whether the request was
\* for the main frame, its return value, the toast it showed.
Did(o, u, m, r, t) == [op |-> o, url |-> u, main |-> m, ret |-> r, toast |-> t]

\* myWebView.loadUrl(u): the web view starts a navigation to u; getUrl() may
\* already report the pending URL or still the committed one.
LoadUrl(u) ==
    /\ navUrl' = u
    /\ phase' = "requested"
    /\ url' \in {url, u}

\* The value loadOffline leaves in lastLiveUrl, given myWebView.url.
LoadOfflineCapture(currentUrl, prev) ==
    IF currentUrl # NoUrl /\ ~StartsWithAsset(currentUrl) THEN currentUrl ELSE prev

\* loadOffline(msg); prev is lastLiveUrl at the call. The toast is recorded
\* by the calling handler.
LoadOffline(prev) ==
    /\ isOffline' = TRUE
    /\ lastLiveUrl' = LoadOfflineCapture(url, prev)
    /\ LoadUrl(LOCAL_URL)

\* Variant of onCreate that loads the live site without the network check.
OnCreate_NoNetworkCheck ==
    /\ host = "android"
    /\ ~created
    /\ created' = TRUE
    /\ lastLiveUrl' = LIVE_URL
    /\ LoadUrl(LIVE_URL)
    /\ isOffline' = isOffline
    /\ last' = Did("onCreate", LIVE_URL, TRUE, FALSE, "")
    /\ graceTimer' = GRACE_DELAY
    /\ sinceBoot' = 0
    /\ subscribed' = TRUE
    /\ UNCHANGED <<isFinishing, avail, notified, lastEvent, progressVisible,
                   lastRemoteStart>>
    /\ UNCHANGED <<sdk, launched, batchPending, batchResult, bgPending, bgGranted,
                   isDestroyed, raised, caught>>
    /\ windowFlags' = windowFlags \cup {"KEEP_SCREEN_ON"}
    /\ UNCHANGED <<host, hardware, btAdapter, uiQueue, offUi, terminated, promptShown,
                   enableRequested, torchOn>>
    /\ UNCHANGED <<fileVars, splashVars, exitVars, monVars, genVars>>

\* onCreate: session reset, first load chosen by the immediate network check,
\* keep-screen-on flag set, permission runnable posted with the grace delay,
\* network callback registered.
OnCreate ==
    /\ host = "android"
    /\ ~created
    /\ created' = TRUE
    /\ IF IsNetworkAvailable
       THEN /\ lastLiveUrl' = LIVE_URL
            /\ LoadUrl(LIVE_URL)
            /\ isOffline' = isOffline
            /\ last' = Did("onCreate", LIVE_URL, TRUE, FALSE, "")
       ELSE /\ LoadOffline(LIVE_URL)
            /\ last' = Did("onCreate", LOCAL_URL, TRUE, FALSE,
                           ShowToast("No Internet Connection"))
    /\ graceTimer' = GRACE_DELAY
    /\ sinceBoot' = 0
    /\ subscribed' = TRUE
    /\ UNCHANGED <<isFinishing, avail, notified, lastEvent, progressVisible,
                   lastRemoteStart>>
    /\ UNCHANGED <<sdk, launched, batchPending, batchResult, bgPending, bgGranted,
                   isDestroyed, raised, caught>>
    /\ windowFlags' = windowFlags \cup {"KEEP_SCREEN_ON"}
    /\ UNCHANGED <<host, hardware, btAdapter, uiQueue, offUi, terminated, promptShown,
                   enableRequested, torchOn>>
    /\ UNCHANGED <<fileVars, splashVars, exitVars, monVars, genVars>>

\* Variant of the capture that also records local asset URLs.
PageStartedCapture_AnyUrl(u, prev) ==
    IF u # NoUrl THEN u ELSE prev

\* The value onPageStarted leaves in lastLiveUrl.
PageStartedCapture(u, prev) ==
    IF u # NoUrl /\ ~StartsWithAsset(u) THEN u ELSE prev

\* Variant of onPageStarted that does not show the progress indicator.
OnPageStarted_NoProgress ==
    /\ created /\ ~isDestroyed
    /\ phase = "requested"
    /\ phase' = "started"
    /\ url' = navUrl
    /\ progressVisible' = progressVisible
    /\ lastLiveUrl' = PageStartedCapture(navUrl, lastLiveUrl)
    /\ lastRemoteStart' = IF StartsWithAsset(navUrl) THEN lastRemoteStart ELSE navUrl
    /\ last' = Did("onPageStarted", navUrl, TRUE, FALSE, "")
    /\ UNCHANGED <<created, isFinishing, avail, notified, lastEvent, navUrl, isOffline>>
    /\ UNCHANGED <<fileVars, splashVars, exitVars, permVars, lifeVars, monVars, extVars>>

\* WebViewClient.onPageStarted(view, url, favicon) for the current navigation.
OnPageStarted ==
    /\ created /\ ~isDestroyed
    /\ phase = "requested"
    /\ phase' = "started"
    /\ url' = navUrl
    /\ progressVisible' = IF ~isFinishing THEN TRUE ELSE progressVisible
    /\ lastLiveUrl' = PageStartedCapture(navUrl, lastLiveUrl)
    /\ lastRemoteStart' = IF StartsWithAsset(navUrl) THEN lastRemoteStart ELSE navUrl
    /\ last' = Did("onPageStarted", navUrl, TRUE, FALSE, "")
    /\ UNCHANGED <<created, isFinishing, avail, notified, lastEvent, navUrl, isOffline>>
    /\ UNCHANGED <<fileVars, splashVars, exitVars, permVars, lifeVars, monVars, extVars>>

\* Variant of the splash test that ignores the overlay's visibility.
StartsFade_Always == hasSplash

\* kt_splash_logic: whether onPageFinished starts a fade animation.
StartsFade == hasSplash /\ splashVisible

\* WebViewClient.onPageFinished(view, url); the web view may signal it more
\* than once for a page.
OnPageFinished ==
    /\ created /\ ~isDestroyed
    /\ phase \in {"started", "finished"}
    /\ StartsFade => animStarted < MaxAnimations
    /\ phase' = "finished"
    /\ progressVisible' = FALSE
    /\ IF StartsFade
       THEN /\ animStarted' = animStarted + 1
            /\ animRunning' = TRUE
       ELSE UNCHANGED <<animStarted, animRunning>>
    /\ last' = Did("onPageFinished", navUrl, TRUE, FALSE, "")
    /\ UNCHANGED <<created, isFinishing, avail, notified, lastEvent, url, navUrl,
                   lastLiveUrl, isOffline, lastRemoteStart, hasSplash, splashVisible>>
    /\ UNCHANGED <<fileVars, exitVars, permVars, lifeVars, monVars, extVars>>

\* onAnimationEnd of the fade listener.
OnAnimationEnd ==
    /\ animRunning /\ ~isDestroyed
    /\ animRunning' = FALSE
    /\ splashVisible' = FALSE
    /\ last' = Did("onAnimationEnd", NoUrl, FALSE, FALSE, "")
    /\ UNCHANGED <<created, isFinishing, avail, notified, lastEvent, url, navUrl, phase,
                   lastLiveUrl, isOffline, progressVisible, lastRemoteStart>>
    /\ UNCHANGED <<hasSplash, animStarted, fileVars, exitVars, permVars, lifeVars, monVars, extVars>>

\* Variant of the guard without the exemption of local assets.
Blocks_NoAssetExemption(targetUrl, online) ==
    IF ~online THEN TRUE ELSE FALSE

\* The return value of shouldOverrideUrlLoading: TRUE stops the navigation.
Blocks(targetUrl, online) ==
    IF StartsWithAsset(targetUrl) THEN FALSE
    ELSE IF ~online THEN TRUE
    ELSE FALSE

\* WebViewClient.shouldOverrideUrlLoading for a navigation the displayed page
\* requests; the web view navigates when it returns false.
ShouldOverrideUrlLoading(targetUrl) ==
    /\ created /\ ~isDestroyed
    /\ phase \in {"started", "finished"}
    /\ LET b == Blocks(targetUrl, IsNetworkAvailable)
       IN  /\ IF b
              THEN UNCHANGED <<navUrl, phase>>
              ELSE /\ navUrl' = targetUrl
                   /\ phase' = "requested"
           /\ last' = Did("shouldOverrideUrlLoading", targetUrl, TRUE, b,
                          IF b THEN ShowToast("No Connection") ELSE "")
    /\ UNCHANGED <<created, isFinishing, avail, notified, lastEvent, url,
                   lastLiveUrl, isOffline, progressVisible,
                   lastRemoteStart>>
    /\ UNCHANGED <<fileVars, splashVars, exitVars, permVars, lifeVars, monVars, extVars>>

\* Variant of the error notice with the connectivity test inverted.
ErrorNotice_WhenOnline(failingUrl, isForMainFrame, online) ==
    isForMainFrame /\ failingUrl # LOCAL_URL /\ online

\* Whether onReceivedError shows its toast.
ErrorNotice(failingUrl, isForMainFrame, online) ==
    isForMainFrame /\ failingUrl # LOCAL_URL /\ ~online

\* WebViewClient.onReceivedError(view, request, error).
OnReceivedError(failingUrl, isForMainFrame) ==
    /\ created /\ ~isDestroyed
    /\ IF isForMainFrame
       THEN phase = "started" /\ failingUrl = navUrl
       ELSE phase \in {"started", "finished"}
    /\ last' = Did("onReceivedError", failingUrl, isForMainFrame, FALSE,
                   IF ErrorNotice(failingUrl, isForMainFrame, IsNetworkAvailable)
                   THEN ShowToast("Unable to load. Waiting for connection...")
                   ELSE "")
    /\ UNCHANGED <<created, isFinishing, avail, notified, lastEvent, url, navUrl, phase,
                   lastLiveUrl, isOffline, progressVisible,
                   lastRemoteStart>>
    /\ UNCHANGED <<fileVars, splashVars, exitVars, permVars, lifeVars, monVars, extVars>>

\* A delivery count, kept up to MaxDeliveries.
Saturate(k) == IF k > MaxDeliveries THEN MaxDeliveries ELSE k

\* Variant of onAvailable that reloads whatever page is displayed.
AvailableReloads_Always == ~isFinishing

\* Whether onAvailable reloads the live site.
AvailableReloads == ~isFinishing /\ url = LOCAL_URL

\* Variant of onAvailable without the isFinishing test around its body.
OnAvailable_Unguarded(n) ==
    /\ created /\ subscribed
    /\ n \in avail \ notified
    /\ notified' = notified \cup {n}
    /\ lastEvent' = "Available"
    /\ IF url = LOCAL_URL
       THEN LoadUrl(lastLiveUrl)
       ELSE UNCHANGED <<url, navUrl, phase>>
    /\ last' = Did("onAvailable", IF url = LOCAL_URL THEN lastLiveUrl ELSE NoUrl,
                   TRUE, FALSE, ShowToast("Back Online"))
    /\ availDelivered' = Saturate(availDelivered + 1)
    /\ UNCHANGED <<created, isFinishing, avail, lastLiveUrl, isOffline, progressVisible,
                   lastRemoteStart, lostDelivered>>
    /\ UNCHANGED <<fileVars, splashVars, exitVars, permVars, lifeVars, extVars>>

\* networkCallback.onAvailable(n), run on the UI thread.
OnAvailable(n) ==
    /\ created /\ subscribed
    /\ n \in avail \ notified
    /\ notified' = notified \cup {n}
    /\ lastEvent' = "Available"
    /\ IF AvailableReloads
       THEN LoadUrl(lastLiveUrl)
       ELSE UNCHANGED <<url, navUrl, phase>>
    /\ last' = Did("onAvailable", IF AvailableReloads THEN lastLiveUrl ELSE NoUrl,
                   TRUE, FALSE, ShowToast("Back Online"))
    /\ availDelivered' = IF ~isFinishing THEN Saturate(availDelivered + 1) ELSE availDelivered
    /\ UNCHANGED <<created, isFinishing, avail, lastLiveUrl, isOffline, progressVisible,
                   lastRemoteStart, lostDelivered>>
    /\ UNCHANGED <<fileVars, splashVars, exitVars, permVars, lifeVars, extVars>>

\* Variant of onLost that falls back to the offline page as the boot does.
OnLost_LoadsOffline(n) ==
    /\ created /\ subscribed
    /\ n \in notified \ avail
    /\ notified' = notified \ {n}
    /\ lastEvent' = "Lost"
    /\ IF ~isFinishing
       THEN LoadOffline(lastLiveUrl)
       ELSE UNCHANGED <<url, navUrl, phase, lastLiveUrl, isOffline>>
    /\ last' = Did("onLost", NoUrl, FALSE, FALSE, ShowToast("Connection Lost"))
    /\ lostDelivered' = IF ~isFinishing THEN Saturate(lostDelivered + 1) ELSE lostDelivered
    /\ UNCHANGED <<created, isFinishing, avail, progressVisible,
                   lastRemoteStart, availDelivered>>
    /\ UNCHANGED <<fileVars, splashVars, exitVars, permVars, lifeVars, extVars>>

\* networkCallback.onLost(n), run on the UI thread.
OnLost(n) ==
    /\ created /\ subscribed
    /\ n \in notified \ avail
    /\ notified' = notified \ {n}
    /\ lastEvent' = "Lost"
    /\ last' = Did("onLost", NoUrl, FALSE, FALSE, ShowToast("Connection Lost"))
    /\ lostDelivered' = IF ~isFinishing THEN Saturate(lostDelivered + 1) ELSE lostDelivered
    /\ UNCHANGED <<created, isFinishing, avail, url, navUrl, phase,
                   lastLiveUrl, isOffline, progressVisible,
                   lastRemoteStart, availDelivered>>
    /\ UNCHANGED <<fileVars, splashVars, exitVars, permVars, lifeVars, extVars>>

\* The host gains or loses a network; no code of the shell runs. The
\* delivery counts restart when connectivity itself changes, that is when
\* isNetworkAvailable() changes its answer.
HostNetworkChange(n) ==
    /\ avail' = IF n \in avail THEN avail \ {n} ELSE avail \cup {n}
    /\ IF (avail' = {}) # (avail = {})
       THEN availDelivered' = 0 /\ lostDelivered' = 0
       ELSE UNCHANGED monVars
    /\ UNCHANGED <<created, isFinishing, notified, lastEvent, url, navUrl, phase,
                   lastLiveUrl, isOffline, progressVisible, lastRemoteStart,
                   last>>
    /\ UNCHANGED <<fileVars, splashVars, exitVars, permVars, lifeVars, extVars>>

\* WebAppInterface.close(): finish().
Close ==
    /\ created /\ ~isDestroyed
    /\ ~isFinishing
    /\ isFinishing' = TRUE
    /\ last' = Did("close", NoUrl, FALSE, FALSE, "")
    /\ UNCHANGED <<created, avail, notified, lastEvent, url, navUrl, phase,
                   lastLiveUrl, isOffline, progressVisible,
                   lastRemoteStart>>
    /\ UNCHANGED <<fileVars, splashVars, exitVars, permVars, lifeVars, monVars, extVars>>

(***************************************************************************)
(* Time and the exit guard (Back Press Logic of onCreate)                  *)
(***************************************************************************)
\* The steps by which time advances, in ms.
Steps == {500, 1000}

\* An elapsed time, kept exact up to the window it is compared with.
Capped(t, window) == IF t > window THEN window + 1 ELSE t

\* Time passes by d ms. A posted runnable runs when it is due: time does not
\* pass beyond the due time of a pending runnable.
Tick(d) ==
    /\ created
    /\ \A i \in 1..Len(exitTimers) : exitTimers[i] >= d
    /\ graceTimer >= 0 => graceTimer >= d
    /\ exitTimers' = [i \in 1..Len(exitTimers) |-> exitTimers[i] - d]
    /\ graceTimer' = IF graceTimer >= 0 THEN graceTimer - d ELSE graceTimer
    /\ sinceBack' = IF sinceBack = NoTime THEN NoTime ELSE Capped(sinceBack + d, EXIT_WINDOW)
    /\ sinceBoot' = IF sinceBoot = NoTime THEN NoTime ELSE Capped(sinceBoot + d, GRACE_DELAY)
    /\ UNCHANGED <<doubleBackToExitPressedOnce, historyDepth, prevRoot>>
    /\ UNCHANGED <<sdk, launched, batchPending, batchResult, bgPending, bgGranted>>
    /\ UNCHANGED <<navVars, fileVars, splashVars, lifeVars, monVars, extVars>>

\* The web view commits a page that adds an entry to its back-history.
HistoryEntryAdded ==
    /\ created /\ ~isDestroyed
    /\ historyDepth < MaxHistory
    /\ historyDepth' = historyDepth + 1
    /\ UNCHANGED <<doubleBackToExitPressedOnce, exitTimers, sinceBack, prevRoot>>
    /\ UNCHANGED <<navVars, fileVars, splashVars, permVars, lifeVars, monVars, extVars>>

\* Variant of the test that ignores the back-history while the guard is armed.
CanGoBack_UnlessArmed == historyDepth > 0 /\ ~doubleBackToExitPressedOnce

\* myWebView.canGoBack()
CanGoBack == historyDepth > 0

\* Variant of handleOnBackPressed in which a second press at the root renews
\* the window with a further disarm timer instead of finishing.
HandleOnBackPressed_Renews ==
    /\ created /\ ~isDestroyed
    /\ prevRoot' = ~CanGoBack
    /\ sinceBack' = 0
    /\ IF CanGoBack
       THEN /\ historyDepth' = historyDepth - 1
            /\ \E u \in Urls : navUrl' = u
            /\ phase' = "requested"
            /\ last' = Did("handleOnBackPressed", navUrl', TRUE, FALSE, "")
            /\ UNCHANGED <<doubleBackToExitPressedOnce, exitTimers, isFinishing>>
       ELSE /\ Len(exitTimers) < 2
            /\ doubleBackToExitPressedOnce' = TRUE
            /\ exitTimers' = Append(exitTimers, EXIT_WINDOW)
            /\ last' = Did("handleOnBackPressed", NoUrl, FALSE, FALSE,
                           ShowToast("Press back again to exit"))
            /\ UNCHANGED <<historyDepth, isFinishing, navUrl, phase>>
    /\ UNCHANGED <<created, avail, notified, lastEvent, url, lastLiveUrl, isOffline,
                   progressVisible, lastRemoteStart>>
    /\ UNCHANGED <<fileVars, splashVars, permVars, lifeVars, monVars, extVars>>

\* handleOnBackPressed(); last.ret is whether it called finish().
HandleOnBackPressed ==
    /\ created /\ ~isDestroyed
    /\ prevRoot' = ~CanGoBack
    /\ sinceBack' = 0
    /\ IF CanGoBack
       THEN /\ historyDepth' = historyDepth - 1
            /\ \E u \in Urls : navUrl' = u
            /\ phase' = "requested"
            /\ last' = Did("handleOnBackPressed", navUrl', TRUE, FALSE, "")
            /\ UNCHANGED <<doubleBackToExitPressedOnce, exitTimers, isFinishing>>
       ELSE IF doubleBackToExitPressedOnce
            THEN /\ isFinishing' = TRUE
                 /\ last' = Did("handleOnBackPressed", NoUrl, FALSE, TRUE, "")
                 /\ UNCHANGED <<doubleBackToExitPressedOnce, exitTimers, historyDepth,
                                navUrl, phase>>
            ELSE /\ doubleBackToExitPressedOnce' = TRUE
                 /\ exitTimers' = Append(exitTimers, EXIT_WINDOW)
                 /\ last' = Did("handleOnBackPressed", NoUrl, FALSE, FALSE,
                                ShowToast("Press back again to exit"))
                 /\ UNCHANGED <<historyDepth, isFinishing, navUrl, phase>>
    /\ UNCHANGED <<created, avail, notified, lastEvent, url, lastLiveUrl, isOffline,
                   progressVisible, lastRemoteStart>>
    /\ UNCHANGED <<fileVars, splashVars, permVars, lifeVars, monVars, extVars>>

\* Variant of the disarm runnable that leaves the guard armed.
ExitTimerFires_KeepsArmed ==
    /\ exitTimers # <<>>
    /\ Head(exitTimers) = 0
    /\ exitTimers' = Tail(exitTimers)
    /\ doubleBackToExitPressedOnce' = doubleBackToExitPressedOnce
    /\ UNCHANGED <<historyDepth, sinceBack, prevRoot>>
    /\ UNCHANGED <<navVars, fileVars, splashVars, permVars, lifeVars, monVars, extVars>>

\* The runnable posted by handleOnBackPressed, run when it is due.
ExitTimerFires ==
    /\ exitTimers # <<>>
    /\ Head(exitTimers) = 0
    /\ exitTimers' = Tail(exitTimers)
    /\ doubleBackToExitPressedOnce' = FALSE
    /\ UNCHANGED <<historyDepth, sinceBack, prevRoot>>
    /\ UNCHANGED <<navVars, fileVars, splashVars, permVars, lifeVars, monVars, extVars>>

(***************************************************************************)
(* SYSTEM PERMISSIONS (MULTI-VERSION SUPPORT)                              *)
(***************************************************************************)
\* API levels of the hosts considered: each threshold and the level below it.
SdkLevels == {28, 29, 31, 32, 33, 34}

BasePermissions ==
    <<"CAMERA", "RECORD_AUDIO", "READ_CONTACTS", "WRITE_CONTACTS", "CALL_PHONE",
      "READ_PHONE_STATE", "READ_SMS", "RECEIVE_SMS", "SEND_SMS",
      "ACCESS_FINE_LOCATION", "ACCESS_COARSE_LOCATION">>

GranularMedia ==
    {"READ_MEDIA_IMAGES", "READ_MEDIA_VIDEO", "READ_MEDIA_AUDIO",
     "READ_MEDIA_VISUAL_USER_SELECTED"}

LegacyStorage == {"READ_EXTERNAL_STORAGE", "WRITE_EXTERNAL_STORAGE"}

\* Variant of the batch that adds the legacy storage permissions on every host.
PermissionBatch_AlwaysLegacy(level) ==
    BasePermissions \o
    (IF level >= API_33
     THEN <<"POST_NOTIFICATIONS", "READ_MEDIA_IMAGES", "READ_MEDIA_VIDEO",
            "READ_MEDIA_AUDIO">> \o
          (IF level >= API_34 THEN <<"READ_MEDIA_VISUAL_USER_SELECTED">> ELSE <<>>)
     ELSE <<>>) \o
    <<"READ_EXTERNAL_STORAGE", "WRITE_EXTERNAL_STORAGE">>

\* The elements of a list.
Range(q) == {q[i] : i \in 1..Len(q)}

\* The launched requests that are permission batches, by position.
Batches == {i \in 1..Len(launched) : launched[i] # <<"ACCESS_BACKGROUND_LOCATION">>}

\* The launched requests that are background-location follow-ups, by position.
FollowUps == {i \in 1..Len(launched) : launched[i] = <<"ACCESS_BACKGROUND_LOCATION">>}

\* The list requestFullPermissions hands to multiplePermissionLauncher on a
\* host of the given API level.
PermissionBatch(level) ==
    BasePermissions \o
    (IF level >= API_33
     THEN <<"POST_NOTIFICATIONS", "READ_MEDIA_IMAGES", "READ_MEDIA_VIDEO",
            "READ_MEDIA_AUDIO">> \o
          (IF level >= API_34 THEN <<"READ_MEDIA_VISUAL_USER_SELECTED">> ELSE <<>>)
     ELSE <<"READ_EXTERNAL_STORAGE", "WRITE_EXTERNAL_STORAGE">>)

\* Variant of the runnable's test that requests in every state.
MayRequest_Always == TRUE

\* The test of the posted runnable: !isFinishing && !isDestroyed.
MayRequest == ~isFinishing /\ ~isDestroyed

\* Variant of the permission runnable that stays posted after it ran.
GraceTimerFires_Repeats ==
    /\ graceTimer = 0
    /\ graceTimer' = graceTimer
    /\ IF MayRequest
       THEN /\ launched' = Append(launched, PermissionBatch(sdk))
            /\ batchPending' = TRUE
       ELSE UNCHANGED <<launched, batchPending>>
    /\ last' = Did("permissionRunnable", NoUrl, FALSE, MayRequest, "")
    /\ UNCHANGED <<sdk, sinceBoot, batchResult, bgPending, bgGranted>>
    /\ UNCHANGED <<created, isFinishing, avail, notified, lastEvent, url, navUrl, phase,
                   lastLiveUrl, isOffline, progressVisible, lastRemoteStart>>
    /\ UNCHANGED <<fileVars, splashVars, exitVars, lifeVars, monVars, extVars>>

\* The runnable posted by onCreate, run when it is due; last.ret is whether
\* it called requestFullPermissions().
GraceTimerFires ==
    /\ graceTimer = 0
    /\ graceTimer' = Fired
    /\ IF MayRequest
       THEN /\ launched' = Append(launched, PermissionBatch(sdk))
            /\ batchPending' = TRUE
       ELSE UNCHANGED <<launched, batchPending>>
    /\ last' = Did("permissionRunnable", NoUrl, FALSE, MayRequest, "")
    /\ UNCHANGED <<sdk, sinceBoot, batchResult, bgPending, bgGranted>>
    /\ UNCHANGED <<created, isFinishing, avail, notified, lastEvent, url, navUrl, phase,
                   lastLiveUrl, isOffline, progressVisible, lastRemoteStart>>
    /\ UNCHANGED <<fileVars, splashVars, exitVars, lifeVars, monVars, extVars>>

\* The results a host can deliver for the two location permissions: precise
\* location is never granted without approximate location, and approximate
\* location alone can be chosen in the dialog of API 31 and later.
HostCanReturn(fine, coarse) ==
    /\ fine => coarse
    /\ (coarse /\ ~fine) => sdk >= 31

\* Whether the callback of multiplePermissionLauncher calls
\* requestBackgroundLocation().
WantsBackground(fine, coarse) == fine /\ sdk >= API_Q

\* Whether requestBackgroundLocation() launches its request.
LaunchesBackground == sdk >= API_Q /\ ~bgGranted

\* The ActivityResult callback of multiplePermissionLauncher; last.ret is
\* whether the background-location request was launched.
MultiplePermissionResult(fine, coarse) ==
    /\ batchPending /\ ~isDestroyed
    /\ HostCanReturn(fine, coarse)
    /\ batchPending' = FALSE
    /\ batchResult' = <<[fine |-> fine, coarse |-> coarse]>>
    /\ LET follow == WantsBackground(fine, coarse) /\ LaunchesBackground
       IN  /\ launched' = IF follow
                          THEN Append(launched, <<"ACCESS_BACKGROUND_LOCATION">>)
                          ELSE launched
           /\ bgPending' = follow
           /\ last' = Did("multiplePermissionResult", NoUrl, FALSE, follow, "")
    /\ UNCHANGED <<sdk, graceTimer, sinceBoot, bgGranted>>
    /\ UNCHANGED <<created, isFinishing, avail, notified, lastEvent, url, navUrl, phase,
                   lastLiveUrl, isOffline, progressVisible, lastRemoteStart>>
    /\ UNCHANGED <<fileVars, splashVars, exitVars, lifeVars, monVars, extVars>>

\* The ActivityResult callback of backgroundLocationLauncher: the host
\* records the user's answer, the callback itself does nothing.
BackgroundLocationResult(granted) ==
    /\ bgPending /\ ~isDestroyed
    /\ bgPending' = FALSE
    /\ bgGranted' = granted
    /\ last' = Did("backgroundLocationResult", NoUrl, FALSE, granted, "")
    /\ UNCHANGED <<sdk, graceTimer, sinceBoot, launched, batchPending, batchResult>>
    /\ UNCHANGED <<created, isFinishing, avail, notified, lastEvent, url, navUrl, phase,
                   lastLiveUrl, isOffline, progressVisible, lastRemoteStart>>
    /\ UNCHANGED <<fileVars, splashVars, exitVars, lifeVars, monVars, extVars>>

\* The user allows background location in the system settings; no code of
\* the shell runs. checkSelfPermission then reports it granted.
HostGrantsBackground ==
    /\ created /\ ~isDestroyed
    /\ sdk >= API_Q
    /\ ~bgGranted /\ ~bgPending
    /\ bgGranted' = TRUE
    /\ UNCHANGED <<sdk, graceTimer, sinceBoot, launched, batchPending, batchResult, bgPending>>
    /\ UNCHANGED <<navVars, fileVars, splashVars, exitVars, lifeVars, monVars, extVars>>

(***************************************************************************)
(* UTILS & CLEANUP                                                         *)
(***************************************************************************)
\* The host releases the registration of networkCallback on its own (the
\* connectivity service restarted); no code of the shell runs.
HostDropsRegistration ==
    /\ subscribed
    /\ subscribed' = FALSE
    /\ UNCHANGED <<isDestroyed, raised, caught>>
    /\ UNCHANGED <<navVars, fileVars, splashVars, exitVars, permVars, monVars, extVars>>

\* Variant of onDestroy's test that never unregisters.
Unregisters_Never(initialized, cmPresent) == FALSE

\* Whether onDestroy calls unregisterNetworkCallback: the callback was
\* initialized and getSystemService returned a ConnectivityManager.
Unregisters(initialized, cmPresent) == initialized /\ cmPresent

\* Variant of onDestroy without the try/catch around the unregistration.
Escapes_NoCatch(thrown) == thrown

\* Whether an exception thrown inside the try block leaves onDestroy.
Escapes(thrown) == FALSE

\* onDestroy(); cmGone is whether getSystemService returns no
\* ConnectivityManager. unregisterNetworkCallback throws for a callback the
\* host does not hold. The web view is stopped and destroyed.
OnDestroy(cmGone) ==
    /\ created /\ ~isDestroyed
    /\ isDestroyed' = TRUE
    /\ LET calls == Unregisters(created, ~cmGone)
           thrown == calls /\ ~subscribed
       IN  /\ raised' = Escapes(thrown)
           /\ caught' = (thrown /\ ~Escapes(thrown))
           /\ subscribed' = IF calls \/ cmGone THEN FALSE ELSE subscribed
    /\ phase' = IF phase \in {"requested", "started"} THEN "stopped" ELSE phase
    /\ last' = Did("onDestroy", NoUrl, FALSE, FALSE, "")
    /\ UNCHANGED <<created, isFinishing, avail, notified, lastEvent, url, navUrl,
                   lastLiveUrl, isOffline, progressVisible, lastRemoteStart>>
    /\ UNCHANGED <<fileVars, splashVars, exitVars, permVars, monVars, extVars>>

(***************************************************************************)
(* JAVASCRIPT INTERFACE (THE BRIDGE)                                       *)
(* Web content calls Native.<name>(arg) on both hosts.                     *)
(***************************************************************************)
\* A capability as web content sees it: its name and the shape of its argument.
Cap(n, a) == [name |-> n, arg |-> a]

\* The @JavascriptInterface methods of WebAppInterface.
AndroidBridge ==
    {Cap("close", "none"), Cap("getPackageName", "none"), Cap("reload", "none"),
     Cap("clearCache", "none"), Cap("enableSecureScreen", "none"),
     Cap("disableSecureScreen", "none"), Cap("getDeviceInfo", "none"),
     Cap("loginBiometric", "none"), Cap("getBatteryLevel", "none"),
     Cap("isCharging", "none"), Cap("isPowerSaveMode", "none"),
     Cap("copyToClipboard", "string"), Cap("openExternalBrowser", "string"),
     Cap("vibrate", "number"), Cap("startNFCScan", "none"), Cap("stopNFCScan", "none"),
     Cap("onScreen", "boolean"), Cap("flashlight", "boolean"),
     Cap("bluetooth", "boolean"), Cap("notification", "string,string")}

\* The functions of the Native object that bridge_js injects.
IosShim ==
    {Cap("vibrate", "number"), Cap("loginBiometric", "none"), Cap("finishApp", "none"),
     Cap("copyToClipboard", "string"), Cap("getBatteryStatus", "none"),
     Cap("flashlight", "boolean")}

\* The message name each function of the shim hands to Native.post.
ShimPosts ==
    [n \in {c.name : c \in IosShim} |->
        CASE n = "vibrate" -> "vibrate"
          [] n = "loginBiometric" -> "loginBiometric"
          [] n = "finishApp" -> "finishApp"
          [] n = "copyToClipboard" -> "copyToClipboard"
          [] n = "getBatteryStatus" -> "getBatteryStatus"
          [] n = "flashlight" -> "flashlight"]

\* The names setupWebView registers with the WKUserContentController.
IosHandlers ==
    {"vibrate", "loginBiometric", "close", "copyToClipboard", "getBatteryLevel",
     "flashlight"}

AndroidNames == {c.name : c \in AndroidBridge}
IosShimNames == {c.name : c \in IosShim}
Names == AndroidNames \cup IosShimNames

\* The argument shape of a name, and the values web content passes for it:
\* only a boolean argument is read by the host code modelled here.
ShapeOf(n) == (CHOOSE c \in AndroidBridge \cup IosShim : c.name = n).arg
ArgsOf(n) == IF ShapeOf(n) = "boolean" THEN BOOLEAN ELSE {FALSE}

\* The capabilities web content can call in the shell of host h.
Callable(h) == IF h = "android" THEN AndroidBridge ELSE IosShim

\* The name by which web content asks the host to close the app.
CloseAppName == IF host = "android" THEN "close" ELSE "finishApp"

\* A runnable handed to runOnUiThread.
Runnable(k, m) == [run |-> k, msg |-> m]

\* showToast(msg) called on the bridge thread: runOnUiThread posts its body.
PostToast(msg) == <<Runnable("toast", msg)>>

\* Variant of the Bluetooth test that also requests when there is no adapter.
RequestsEnable_UnlessOn(enable, adapter) == enable /\ adapter # "on"

\* Whether bluetooth(enable) starts the enable dialog:
\* enable && bluetoothAdapter?.isEnabled == false.
RequestsEnable(enable, adapter) == enable /\ adapter = "off"

\* The runnables a method of WebAppInterface posts to the UI thread.
Posts(name, arg) ==
    CASE name = "reload" -> <<Runnable("reload", "")>>
      [] name = "clearCache" -> <<Runnable("clearCache", "")>>
      [] name = "enableSecureScreen" -> <<Runnable("secureOn", "")>>
      [] name = "disableSecureScreen" -> <<Runnable("secureOff", "")>>
      [] name = "loginBiometric" -> <<Runnable("authenticate", "")>>
      [] name = "startNFCScan" -> <<Runnable("toast", "NFC Scanning Started...")>>
      [] name = "stopNFCScan" -> PostToast("NFC Scanning Stopped")
      [] name = "onScreen" -> <<Runnable(IF arg THEN "keepOn" ELSE "keepOff", "")>>
      [] name = "flashlight" ->
            IF "torch" \in hardware THEN <<>> ELSE PostToast("Flashlight Error")
      [] name = "bluetooth" ->
            IF arg THEN <<>> ELSE PostToast("Please disable Bluetooth in Settings")
      [] OTHER -> <<>>

\* The capabilities whose method changes activity state in its own body,
\* that is on the thread the bridge call arrived on.
DirectMutations(name) == IF name = "close" THEN {"close"} ELSE {}

\* How a bridge call shows in last.op: by its name when the method acts in its
\* own body, as "bridge" when it only answers a query or posts a runnable
\* (which uiQueue shows).
Observed(name) == IF name \in {"close", "flashlight", "bluetooth"} THEN name ELSE "bridge"

\* Web content calls Native.name(arg) in the Android shell: the method body
\* runs on the bridge thread. A name WebAppInterface does not have is
\* undefined in the page and reaches no host code. last.ret is whether the
\* call called finish() or started the Bluetooth enable dialog.
AndroidInvoke(name, arg) ==
    /\ host = "android"
    /\ created /\ ~isDestroyed
    /\ IF name \in AndroidNames
       THEN /\ Len(uiQueue) + Len(Posts(name, arg)) <= MaxQueue
            /\ uiQueue' = uiQueue \o Posts(name, arg)
            /\ isFinishing' = (isFinishing \/ name = "close")
            /\ offUi' = offUi \cup DirectMutations(name)
            /\ torchOn' = IF name = "flashlight" /\ "torch" \in hardware THEN arg ELSE torchOn
            /\ enableRequested' =
                  (enableRequested \/ (name = "bluetooth" /\ RequestsEnable(arg, btAdapter)))
            /\ last' = Did(Observed(name), NoUrl, FALSE,
                           name = "close" \/ (name = "bluetooth" /\ RequestsEnable(arg, btAdapter)),
                           "")
       ELSE /\ last' = Did(Observed(name), NoUrl, FALSE, FALSE, "")
            /\ UNCHANGED <<uiQueue, isFinishing, offUi, torchOn, enableRequested>>
    /\ UNCHANGED <<host, hardware, btAdapter, terminated, windowFlags, promptShown>>
    /\ UNCHANGED <<created, avail, notified, lastEvent, url, navUrl, phase,
                   lastLiveUrl, isOffline, progressVisible, lastRemoteStart>>
    /\ UNCHANGED <<fileVars, splashVars, exitVars, permVars, lifeVars, monVars, genVars>>

\* The UI thread runs the runnable at the head of its queue.
UiRun ==
    /\ uiQueue # <<>>
    /\ LET r == Head(uiQueue)
           absent == r.run = "authenticate" /\ "biometric" \notin hardware
       IN  /\ uiQueue' = Tail(uiQueue)
           /\ windowFlags' =
                 CASE r.run = "secureOn" -> windowFlags \cup {"SECURE"}
                   [] r.run = "secureOff" -> windowFlags \ {"SECURE"}
                   [] r.run = "keepOn" -> windowFlags \cup {"KEEP_SCREEN_ON"}
                   [] r.run = "keepOff" -> windowFlags \ {"KEEP_SCREEN_ON"}
                   [] OTHER -> windowFlags
           /\ promptShown' = (promptShown \/ (r.run = "authenticate" /\ ~absent))
           /\ phase' = IF r.run = "reload" THEN "requested" ELSE phase
           /\ last' = Did(r.run, NoUrl, FALSE, FALSE,
                          IF r.run = "toast" THEN ShowToast(r.msg)
                          ELSE IF absent THEN ShowToast("Authentication Error")
                          ELSE "")
    /\ UNCHANGED <<host, hardware, btAdapter, offUi, terminated, enableRequested, torchOn>>
    /\ UNCHANGED <<created, isFinishing, avail, notified, lastEvent, url, navUrl,
                   lastLiveUrl, isOffline, progressVisible, lastRemoteStart>>
    /\ UNCHANGED <<fileVars, splashVars, exitVars, permVars, lifeVars, monVars, genVars>>

\* The AuthenticationCallback of the biometric prompt, on the main executor:
\* onAuthenticationSucceeded or onAuthenticationFailed.
AuthenticationResult(ok) ==
    /\ host = "android"
    /\ promptShown
    /\ promptShown' = ~ok
    /\ last' = Did("authenticationResult", NoUrl, FALSE, ok,
                   ShowToast(IF ok THEN "Login Successful!"
                             ELSE "Authentication Failed. Try again."))
    /\ UNCHANGED <<host, hardware, btAdapter, uiQueue, offUi, terminated, windowFlags,
                   enableRequested, torchOn>>
    /\ UNCHANGED <<created, isFinishing, avail, notified, lastEvent, url, navUrl, phase,
                   lastLiveUrl, isOffline, progressVisible, lastRemoteStart>>
    /\ UNCHANGED <<fileVars, splashVars, exitVars, permVars, lifeVars, monVars, genVars>>

\* The user switches Bluetooth on or off, in the enable dialog or in the
\* settings; no code of the shell runs.
HostBluetoothToggle ==
    /\ btAdapter # "none"
    /\ btAdapter' = IF btAdapter = "on" THEN "off" ELSE "on"
    /\ UNCHANGED <<host, hardware, uiQueue, offUi, terminated, windowFlags, promptShown,
                   enableRequested, torchOn>>
    /\ UNCHANGED <<navVars, fileVars, splashVars, exitVars, permVars, lifeVars, monVars,
                   genVars>>

\* showErrorAndExit(message) of the iOS controller: the failure reason is
\* reported to the user and the session goes on.
ShowErrorAndExit(message) == [report |-> message, exits |-> FALSE]

\* What a call of the iOS handler reports and whether it ends the process.
Silent == [report |-> "", exits |-> FALSE]

\* userContentController(_:didReceive:) for the message of the given name.
IosHandle(name, arg) ==
    LET out == CASE name = "close" -> [report |-> "", exits |-> TRUE]
                 [] name = "loginBiometric" /\ "biometric" \notin hardware ->
                       ShowErrorAndExit("Biometrics not available")
                 [] OTHER -> Silent
    IN  /\ terminated' = out.exits
        /\ promptShown' = (promptShown \/ (name = "loginBiometric" /\ "biometric" \in hardware))
        /\ torchOn' = IF name = "flashlight" /\ "torch" \in hardware THEN arg ELSE torchOn
        /\ last' = Did(name, NoUrl, FALSE, out.exits, out.report)

\* Web content calls Native.name(arg) in the iOS shell: the function of the
\* shim calls Native.post, which posts the message only when a handler of
\* that name is registered. A name the shim does not have is undefined in the
\* page.
IosInvoke(name, arg) ==
    /\ host = "ios"
    /\ ~terminated
    /\ IF name \in IosShimNames /\ ShimPosts[name] \in IosHandlers
       THEN IosHandle(ShimPosts[name], arg)
       ELSE /\ last' = Did(name, NoUrl, FALSE, FALSE, "")
            /\ UNCHANGED <<terminated, promptShown, torchOn>>
    /\ UNCHANGED <<host, hardware, btAdapter, uiQueue, offUi, windowFlags, enableRequested>>
    /\ UNCHANGED <<created, isFinishing, avail, notified, lastEvent, url, navUrl, phase,
                   lastLiveUrl, isOffline, progressVisible, lastRemoteStart>>
    /\ UNCHANGED <<fileVars, splashVars, exitVars, permVars, lifeVars, monVars, genVars>>

\* The reply block of evaluatePolicy, dispatched to the main queue.
IosBiometricResult(success) ==
    /\ host = "ios"
    /\ ~terminated
    /\ promptShown
    /\ promptShown' = FALSE
    /\ LET out == IF success THEN Silent ELSE ShowErrorAndExit("Authentication Failed")
       IN  /\ terminated' = out.exits
           /\ last' = Did("biometricResult", NoUrl, FALSE, success, out.report)
    /\ UNCHANGED <<host, hardware, btAdapter, uiQueue, offUi, windowFlags, enableRequested,
                   torchOn>>
    /\ UNCHANGED <<created, isFinishing, avail, notified, lastEvent, url, navUrl, phase,
                   lastLiveUrl, isOffline, progressVisible, lastRemoteStart>>
    /\ UNCHANGED <<fileVars, splashVars, exitVars, permVars, lifeVars, monVars, genVars>>

\* NavigationState of the spec, read off the web view's navigation.
NavigationState ==
    IF ~created \/ phase = "idle" THEN "Booting"
    ELSE IF phase = "finished"
         THEN (IF StartsWithAsset(navUrl) THEN "FallbackReady" ELSE "ContentReady")
         ELSE (IF StartsWithAsset(navUrl) THEN "LoadingFallback" ELSE "LoadingRemote")

(***************************************************************************)
(* GENERATOR (main, bundle_website, build_android_native)                  *)
(***************************************************************************)
\* A directory of the download: the files in it and everything listed in it.
Dir(f, i) == [files |-> f, items |-> i]

\* What the mirroring command can leave in temp_dl, as os.walk visits it
\* (top-down, temp_dl itself first): nothing at all, the mirrored host with
\* its root document, a root document only one level further down, and a
\* host without any index.html.
Downloads ==
    { <<Dir({}, {})>>,
      <<Dir({}, {"site"}),
        Dir({"index.html", "style.css"}, {"index.html", "style.css"})>>,
      <<Dir({}, {"site"}),
        Dir({"robots.txt"}, {"robots.txt", "app"}),
        Dir({"index.html"}, {"index.html"})>>,
      <<Dir({}, {"site"}),
        Dir({"page.html"}, {"page.html"})>>,
      <<Dir({"index.html"}, {"index.html", "site"}),
        Dir({"page.html"}, {"page.html"})>> }

\* The first walked directory that holds index.html, 0 when there is none.
RECURSIVE FirstWithIndex(_, _)
FirstWithIndex(t, i) ==
    IF i > Len(t) THEN 0
    ELSE IF "index.html" \in t[i].files THEN i
    ELSE FirstWithIndex(t, i + 1)

\* The top level of the asset directory after the copy: the items of the
\* directory found, or all of temp_dl when none was found.
Bundled(t) ==
    LET k == FirstWithIndex(t, 1)
    IN  IF k # 0 THEN t[k].items ELSE t[1].items

GenFrame ==
    UNCHANGED <<navVars, fileVars, splashVars, exitVars, permVars, lifeVars, monVars,
                bridgeVars, wgetPresent, tree, gradlePresent, debugOk, releaseOk>>

\* main, steps 1: an old work directory is removed and a new one made.
MainSetup ==
    /\ pc = "start"
    /\ workDir' = TRUE
    /\ pc' = "setup"
    /\ UNCHANGED <<assets, buildStarted>>
    /\ GenFrame

\* bundle_website: the mirroring command runs with check=False; when it
\* cannot be started at all the exception handler ends the run.
BundleWebsite ==
    /\ pc = "setup"
    /\ IF wgetPresent
       THEN /\ assets' = Bundled(tree)
            /\ pc' = "bundled"
       ELSE /\ assets' = assets
            /\ pc' = "exited"
    /\ UNCHANGED <<workDir, buildStarted>>
    /\ GenFrame

\* build_android_native: returns early without the build tool; both gradle
\* commands run with check=True and raise on a non-zero status.
BuildAndroidNative ==
    /\ pc = "bundled"
    /\ buildStarted' = TRUE
    /\ pc' = IF ~gradlePresent THEN "returned"
             ELSE IF ~debugOk \/ ~releaseOk THEN "crashed"
             ELSE "returned"
    /\ UNCHANGED <<workDir, assets>>
    /\ GenFrame

\* main, step 3: reached only when the build stage returned.
FinalCleanup ==
    /\ pc = "returned"
    /\ workDir
    /\ workDir' = FALSE
    /\ pc' = "done"
    /\ UNCHANGED <<assets, buildStarted>>
    /\ GenFrame

(***************************************************************************)
(* Specifications                                                          *)
(***************************************************************************)
\* The host and the generator's environment where they play no part: an
\* Android device with all the hardware, no generator run.
InitHost ==
    /\ host = "android"
    /\ hardware = Hardware
    /\ btAdapter = "off"
    /\ workDir = FALSE
    /\ wgetPresent = TRUE
    /\ tree = <<>>
    /\ gradlePresent = TRUE
    /\ debugOk = TRUE
    /\ releaseOk = TRUE

InitFields ==
    /\ filePathCallback = NullCb
    /\ nextCb = 0
    /\ pickers = {}
    /\ fcLog = <<>>
    /\ created = FALSE
    /\ isFinishing = FALSE
    /\ notified = {}
    /\ lastEvent = "None"
    /\ url = NoUrl
    /\ navUrl = NoUrl
    /\ phase = "idle"
    /\ lastLiveUrl = LIVE_URL
    /\ isOffline = FALSE
    /\ progressVisible = FALSE
    /\ lastRemoteStart = NoUrl
    /\ animRunning = FALSE
    /\ animStarted = 0
    /\ doubleBackToExitPressedOnce = FALSE
    /\ exitTimers = <<>>
    /\ historyDepth = 0
    /\ sinceBack = NoTime
    /\ prevRoot = FALSE
    /\ graceTimer = NotPosted
    /\ sinceBoot = NoTime
    /\ launched = <<>>
    /\ batchPending = FALSE
    /\ batchResult = <<>>
    /\ bgPending = FALSE
    /\ isDestroyed = FALSE
    /\ subscribed = FALSE
    /\ raised = FALSE
    /\ caught = FALSE
    /\ availDelivered = 0
    /\ lostDelivered = 0
    /\ uiQueue = <<>>
    /\ offUi = {}
    /\ terminated = FALSE
    /\ windowFlags = {}
    /\ promptShown = FALSE
    /\ enableRequested = FALSE
    /\ torchOn = FALSE
    /\ pc = "start"
    /\ assets = {}
    /\ buildStarted = FALSE
    /\ last = Did("init", NoUrl, FALSE, FALSE, "")

\* Navigation of a shell generated without a splash image.
Init ==
    /\ InitFields
    /\ avail \in SUBSET Nets
    /\ hasSplash = FALSE
    /\ splashVisible = FALSE
    /\ sdk = API_34
    /\ bgGranted = FALSE
    /\ InitHost

Next ==
    \/ OnCreate
    \/ OnPageStarted
    \/ OnPageFinished
    \/ \E u \in Urls : ShouldOverrideUrlLoading(u)
    \/ \E u \in Urls, m \in BOOLEAN : OnReceivedError(u, m)
    \/ \E n \in Nets : OnAvailable(n)
    \/ \E n \in Nets : OnLost(n)
    \/ \E n \in Nets : HostNetworkChange(n)
    \/ Close

Spec == Init /\ [][Next]_vars

\* The file uploader system on its own.
InitFile ==
    /\ InitFields
    /\ avail = {}
    /\ hasSplash = FALSE
    /\ splashVisible = FALSE
    /\ sdk = API_34
    /\ bgGranted = FALSE
    /\ InitHost

NextFile ==
    \/ \E t \in BOOLEAN : OnShowFileChooser(t)
    \/ \E p \in Callbacks, ok \in BOOLEAN, d \in BOOLEAN : FileChooserResult(p, ok, d)

SpecFile == InitFile /\ [][NextFile]_vars

\* Page loads of a shell generated with a splash image.
InitSplash ==
    /\ InitFields
    /\ avail \in SUBSET Nets
    /\ hasSplash = TRUE
    /\ splashVisible = TRUE
    /\ sdk = API_34
    /\ bgGranted = FALSE
    /\ InitHost

NextSplash ==
    \/ OnCreate
    \/ OnPageStarted
    \/ OnPageFinished
    \/ OnAnimationEnd
    \/ \E u \in Urls : ShouldOverrideUrlLoading(u)

SpecSplash == InitSplash /\ [][NextSplash]_vars

\* The exit guard and its timer.
InitExit ==
    /\ InitFields
    /\ avail = {"wifi"}
    /\ hasSplash = FALSE
    /\ splashVisible = FALSE
    /\ sdk = API_34
    /\ bgGranted = FALSE
    /\ InitHost

NextExit ==
    \/ OnCreate
    \/ HistoryEntryAdded
    \/ HandleOnBackPressed
    \/ ExitTimerFires
    \/ GraceTimerFires
    \/ \E d \in Steps : Tick(d)

SpecExit == InitExit /\ [][NextExit]_vars

\* The permission sequencer and the teardown, on hosts of every API level.
InitLifecycle ==
    /\ InitFields
    /\ avail = {"wifi"}
    /\ hasSplash = FALSE
    /\ splashVisible = FALSE
    /\ sdk \in SdkLevels
    /\ bgGranted = FALSE
    /\ InitHost

NextLifecycle ==
    \/ OnCreate
    \/ \E d \in Steps : Tick(d)
    \/ GraceTimerFires
    \/ \E f \in BOOLEAN, c \in BOOLEAN : MultiplePermissionResult(f, c)
    \/ \E g \in BOOLEAN : BackgroundLocationResult(g)
    \/ HostGrantsBackground
    \/ Close
    \/ HostDropsRegistration
    \/ \E g \in BOOLEAN : OnDestroy(g)

SpecLifecycle == InitLifecycle /\ [][NextLifecycle]_vars

\* The capability bridge of both shells, on devices with and without the
\* optional hardware.
InitBridge ==
    /\ InitFields
    /\ avail = {"wifi"}
    /\ hasSplash = FALSE
    /\ splashVisible = FALSE
    /\ sdk = API_34
    /\ bgGranted = FALSE
    /\ host \in {"android", "ios"}
    /\ hardware \in SUBSET Hardware
    /\ btAdapter \in {"none", "off", "on"}
    /\ workDir = FALSE
    /\ wgetPresent = TRUE
    /\ tree = <<>>
    /\ gradlePresent = TRUE
    /\ debugOk = TRUE
    /\ releaseOk = TRUE

NextBridge ==
    \/ OnCreate
    \/ \E n \in Names : \E a \in ArgsOf(n) : AndroidInvoke(n, a)
    \/ UiRun
    \/ \E ok \in BOOLEAN : AuthenticationResult(ok)
    \/ \E n \in Names : \E a \in ArgsOf(n) : IosInvoke(n, a)
    \/ \E ok \in BOOLEAN : IosBiometricResult(ok)
    \/ HostBluetoothToggle

SpecBridge == InitBridge /\ [][NextBridge]_vars

\* The file uploader system up to the teardown of the activity.
NextFileTeardown ==
    \/ OnCreate
    \/ \E t \in BOOLEAN : OnShowFileChooser(t)
    \/ \E p \in Callbacks, ok \in BOOLEAN, d \in BOOLEAN : FileChooserResult(p, ok, d)
    \/ \E g \in BOOLEAN : OnDestroy(g)

SpecFileTeardown == InitFile /\ [][NextFileTeardown]_vars

\* One run of the generator, for every outcome of its external commands and
\* with or without the work directory of an earlier failed build.
InitGen ==
    /\ InitFields
    /\ avail = {"wifi"}
    /\ hasSplash = FALSE
    /\ splashVisible = FALSE
    /\ sdk = API_34
    /\ bgGranted = FALSE
    /\ host = "android"
    /\ hardware = Hardware
    /\ btAdapter = "off"
    /\ workDir \in BOOLEAN
    /\ wgetPresent \in BOOLEAN
    /\ tree \in Downloads
    /\ gradlePresent \in BOOLEAN
    /\ debugOk \in BOOLEAN
    /\ releaseOk \in BOOLEAN

NextGen ==
    \/ MainSetup
    \/ BundleWebsite
    \/ BuildAndroidNative
    \/ FinalCleanup

SpecGen == InitGen /\ [][NextGen]_vars

(***************************************************************************)
(* Properties of the file uploader system (SpecFile)                       *)
(***************************************************************************)
Handed == 1..nextCb

\* The picker launched for callback c has returned.
HasResult(c) == FirstPos("result", c) > 0

\* C1: at most one file-chooser callback is pending at any time, it is the one
\* stored in filePathCallback, and every callback that was still pending when
\* onShowFileChooser was invoked again was resolved with a null result before
\* the new callback was stored (and so before its picker was launched).
C1_AtMostOnePending ==
    /\ Cardinality(Pending) <= 1
    /\ Pending \subseteq {filePathCallback}
    /\ \A c \in Handed, c2 \in Handed :
          (c2 < c /\ Returned(c2) = "true") =>
              LET s == FirstPos("store", c)
                  r == FirstPos("onReceiveValue", c2)
              IN  /\ r > 0
                  /\ r < s
                  /\ s < FirstPos("return", c)
                  /\ (FirstPos("launch", c) > 0 => s < FirstPos("launch", c))
                  /\ (r = s - 1 => fcLog[r].val = "null")

\* A second request arrived while the first was pending: the first was
\* resolved with null right before the second was stored and launched.
C1_Witness ==
    \E i \in 1..Len(fcLog) :
        /\ i + 2 <= Len(fcLog)
        /\ fcLog[i].ev = "onReceiveValue" /\ fcLog[i].val = "null"
        /\ fcLog[i + 1].ev = "store" /\ fcLog[i + 1].cb = fcLog[i].cb + 1
        /\ fcLog[i + 2].ev = "launch"
        /\ Pending = {fcLog[i + 1].cb}

\* C2: every callback handed to onShowFileChooser receives onReceiveValue
\* exactly once: never twice, and once by the time its request has ended,
\* whether its picker returned (selection or cancel) or the launch threw.
C2_ResolvedExactlyOnce ==
    \A c \in Handed :
        /\ Resolutions(c) <= 1
        /\ (HasResult(c) \/ Returned(c) = "false") => Resolutions(c) = 1

(***************************************************************************)
(* Properties of the navigation logic (Spec)                               *)
(***************************************************************************)
\* C3: the shell never enters ContentReady (page-finished of a non-fallback
\* page) while the most recent connectivity event was Lost.
C3_NoContentReadyAfterLost ==
    ~(/\ last.op = "onPageFinished"
      /\ NavigationState = "ContentReady"
      /\ lastEvent = "Lost")

\* C4: a connectivity-Lost event makes the running shell load the fallback
\* document (LoadingFallback) after storing the displayed non-fallback
\* location in lastLiveUrl.
C4_LostLoadsFallback ==
    [][\A n \in Nets :
          (OnLost(n) /\ ~isFinishing) =>
              /\ navUrl' = LOCAL_URL
              /\ NavigationState' = "LoadingFallback"
              /\ (url # NoUrl /\ ~StartsWithAsset(url)) => lastLiveUrl' = url]_vars

\* C5: on a connectivity-Available event in a running shell, if the displayed
\* document is the fallback document (LOCAL_URL) the shell loads lastLiveUrl,
\* which is LIVE_URL when no remote navigation has begun, and is in
\* LoadingRemote; if any other page is displayed the event starts no
\* navigation and the displayed location stays as it was.
C5_AvailableReloadsOnlyFromFallback ==
    [][\A n \in Nets :
          (OnAvailable(n) /\ ~isFinishing) =>
              IF url = LOCAL_URL
              THEN /\ navUrl' = lastLiveUrl
                   /\ phase' = "requested"
                   /\ NavigationState' = "LoadingRemote"
                   /\ (lastRemoteStart = NoUrl => navUrl' = LIVE_URL)
              ELSE UNCHANGED <<url, navUrl, phase>>]_vars

\* After an offline boot, before any remote navigation began, an Available
\* event found the fallback document displayed and reloaded LIVE_URL.
C5_WitnessReload ==
    /\ last.op = "onAvailable"
    /\ last.url = LIVE_URL
    /\ navUrl = LIVE_URL /\ phase = "requested"
    /\ isOffline
    /\ lastRemoteStart = NoUrl

\* C6: onCreate itself chooses and starts the first load from the connectivity
\* at that instant: LIVE_URL when a network is available, else the fallback
\* document; and from an offline boot the page events of the fallback load
\* lead from LoadingFallback to FallbackReady and nowhere else.
C6_BootChoosesByConnectivity ==
    [][/\ OnCreate =>
            /\ NavigationState = "Booting"
            /\ IF IsNetworkAvailable
               THEN navUrl' = LIVE_URL /\ NavigationState' = "LoadingRemote"
               ELSE navUrl' = LOCAL_URL /\ NavigationState' = "LoadingFallback"
       /\ (OnPageStarted /\ NavigationState = "LoadingFallback") =>
            NavigationState' = "LoadingFallback"
       /\ (OnPageFinished /\ NavigationState = "LoadingFallback") =>
            NavigationState' = "FallbackReady"]_vars

\* An offline boot whose fallback load has finished.
C6_Witness ==
    /\ isOffline
    /\ last.op = "onPageFinished"
    /\ navUrl = LOCAL_URL
    /\ NavigationState = "FallbackReady"
    /\ lastRemoteStart = NoUrl

\* C7: shouldOverrideUrlLoading allows every navigation to a local fallback
\* (asset) document whatever the connectivity, and blocks any other target,
\* with a notice, exactly when no network is available at the request.
C7_InterceptPolicy ==
    [][\A u \in Urls :
          ShouldOverrideUrlLoading(u) =>
              /\ StartsWithAsset(u) => ~last'.ret
              /\ ~StartsWithAsset(u) => (last'.ret <=> ~IsNetworkAvailable)
              /\ last'.ret => /\ UNCHANGED <<url, navUrl, phase>>
                              /\ ~isFinishing => last'.toast = "No Connection"
              /\ ~last'.ret => /\ navUrl' = u
                               /\ phase' = "requested"
                               /\ last'.toast = ""]_vars

\* A remote target was blocked offline.
C7_Witness ==
    /\ last.op = "shouldOverrideUrlLoading"
    /\ last.url = OTHER_URL
    /\ last.ret
    /\ last.toast = "No Connection"
    /\ ~IsNetworkAvailable

\* C8 as stated: a main-frame load failure without connectivity always
\* surfaces a notice, and no load failure starts a navigation or changes
\* lastLiveUrl.
C8_NoticeOnEveryOfflineMainFrameFailure ==
    [][\A u \in Urls, m \in BOOLEAN :
          OnReceivedError(u, m) =>
              /\ (m /\ ~IsNetworkAvailable /\ ~isFinishing) => last'.toast # ""
              /\ UNCHANGED <<url, navUrl, phase, lastLiveUrl>>]_vars

\* C8 amended: the notice is surfaced when the failing main-frame request is
\* not for the fallback document LOCAL_URL and connectivity is absent; no
\* load failure starts a navigation or changes lastLiveUrl.
C8_NoticeUnlessFallbackDocument ==
    [][\A u \in Urls, m \in BOOLEAN :
          OnReceivedError(u, m) =>
              /\ (m /\ u # LOCAL_URL /\ ~IsNetworkAvailable /\ ~isFinishing) =>
                     last'.toast = "Unable to load. Waiting for connection..."
              /\ UNCHANGED <<url, navUrl, phase, lastLiveUrl>>]_vars

\* A remote main-frame load failed offline and the notice was shown.
C8_Witness ==
    /\ last.op = "onReceivedError"
    /\ last.main
    /\ last.url = OTHER_URL
    /\ last.toast = "Unable to load. Waiting for connection..."
    /\ ~IsNetworkAvailable

\* C9: lastLiveUrl is LIVE_URL after boot, and from then on it is the URL of
\* the most recent non-fallback navigation that began, LIVE_URL while there
\* has been none.
C9_LastLiveUrlTracksRemoteStarts ==
    /\ last.op = "onCreate" => lastLiveUrl = LIVE_URL
    /\ lastLiveUrl = (IF lastRemoteStart = NoUrl THEN LIVE_URL ELSE lastRemoteStart)
    /\ (last.op = "onPageStarted" /\ ~StartsWithAsset(last.url)) => lastLiveUrl = last.url

\* A remote page started, then a fallback page started after it.
C9_Witness ==
    /\ lastRemoteStart = OTHER_URL
    /\ lastLiveUrl = OTHER_URL
    /\ last.op = "onPageStarted"
    /\ StartsWithAsset(last.url)

(***************************************************************************)
(* Properties of the splash overlay (SpecSplash)                           *)
(***************************************************************************)
\* C10: with a splash overlay, at most one fade animation is ever started
\* in a session, however many page-finished signals fire.
C10_OneFadePerSession ==
    hasSplash => animStarted <= 1

\* C11: once the splash overlay is hidden it stays hidden, and a page-finished
\* signal that arrives after it is hidden changes nothing of the overlay.
C11_HiddenStaysHidden ==
    [][(hasSplash /\ ~splashVisible) =>
          /\ ~splashVisible'
          /\ OnPageFinished => UNCHANGED splashVars]_vars

\* A page-finished signal was handled after the fade had ended.
C11_Witness ==
    /\ hasSplash
    /\ ~splashVisible
    /\ ~animRunning
    /\ animStarted = 1
    /\ last.op = "onPageFinished"

(***************************************************************************)
(* Properties of the progress indicator (Spec)                             *)
(***************************************************************************)
\* C12: in a running shell the progress indicator is visible while a
\* navigation, remote or fallback, is between page-started and page-finished,
\* and it is hidden once the page has finished.
C12_ProgressFollowsNavigation ==
    /\ (phase = "started" /\ ~isFinishing) => progressVisible
    /\ phase = "finished" => ~progressVisible
    /\ (last.op = "onPageStarted" /\ ~isFinishing) => progressVisible
    /\ last.op = "onPageFinished" => ~progressVisible

\* A fallback navigation that began after a remote page is showing progress.
C12_Witness ==
    /\ phase = "started"
    /\ navUrl = LOCAL_PAGE
    /\ lastRemoteStart = OTHER_URL
    /\ progressVisible
    /\ ~isFinishing


(***************************************************************************)
(* Properties of the exit guard (SpecExit)                                 *)
(***************************************************************************)
\* C13: with no back-history, a back-action that follows another back-action
\* made with no back-history by less than the timeout window (2000 ms)
\* terminates the app, and a back-action that follows the previous one by more
\* than the window never terminates it: by then the window's runnable has
\* disarmed the guard.
C13_ExitGuardWindow ==
    /\ [][(HandleOnBackPressed /\ prevRoot /\ historyDepth = 0
             /\ sinceBack # NoTime /\ sinceBack < EXIT_WINDOW) => isFinishing']_vars
    /\ [][(HandleOnBackPressed /\ sinceBack > EXIT_WINDOW /\ ~isFinishing)
             => (~isFinishing' /\ ~last'.ret)]_vars
    /\ [](sinceBack > EXIT_WINDOW => ~doubleBackToExitPressedOnce)

\* A second back-action at the root, 1500 ms after the first, has finished
\* the activity.
C13_Witness ==
    /\ last.op = "handleOnBackPressed" /\ last.ret
    /\ isFinishing /\ prevRoot /\ sinceBack = 0
    /\ exitTimers = <<500>>

\* C14: a back-action while the web view has back-history navigates back
\* (one history entry less, a navigation under way) and leaves the guard's
\* flag, its pending runnable and the finishing state as they were, armed or
\* not.
C14_BackWithHistoryNavigates ==
    [][(HandleOnBackPressed /\ historyDepth > 0) =>
          /\ historyDepth' = historyDepth - 1
          /\ phase' = "requested"
          /\ ~last'.ret
          /\ UNCHANGED <<doubleBackToExitPressedOnce, exitTimers, isFinishing>>]_vars

\* A back-action with back-history was handled while the guard was armed.
C14_Witness ==
    /\ last.op = "handleOnBackPressed" /\ ~prevRoot /\ sinceBack = 0
    /\ doubleBackToExitPressedOnce /\ exitTimers # <<>> /\ ~isFinishing

(***************************************************************************)
(* Properties of the permission sequencer and the teardown (SpecLifecycle) *)
(***************************************************************************)
\* C15: on every host the permission batch contains a granular media-read
\* permission or the notification permission only at API 33 and above,
\* contains a legacy storage permission only below API 33, and never contains
\* permissions of both groups.
C15_BatchMatchesTier ==
    \A i \in Batches :
        LET b == Range(launched[i])
            granular == b \cap (GranularMedia \cup {"POST_NOTIFICATIONS"})
            legacy == b \cap LegacyStorage
        IN  /\ granular # {} => sdk >= 33
            /\ legacy # {} => sdk < 33
            /\ granular = {} \/ legacy = {}

\* A batch with the legacy storage permissions was launched on an API 32 host.
C15_Witness ==
    /\ sdk = 32
    /\ Batches # {}
    /\ \A i \in Batches : LegacyStorage \subseteq Range(launched[i])

\* C16: once the result of the permission batch has been delivered, exactly
\* one background-location follow-up has been issued if the fine or the coarse
\* location permission was granted in the batch and the host is API 29 or
\* later, and none otherwise; none is issued before the result.
C16_FollowUpIffLocationGranted ==
    IF batchResult = <<>>
    THEN FollowUps = {}
    ELSE IF (batchResult[1].fine \/ batchResult[1].coarse) /\ sdk >= 29
         THEN Cardinality(FollowUps) = 1
         ELSE FollowUps = {}

\* C17: in one session the permission batch is issued at most once and not
\* before 5000 ms have passed since onCreate, and no permission is requested
\* a second time, in the same request or in a later one.
C17_BatchOnceAfterGrace ==
    /\ Cardinality(Batches) <= 1
    /\ Batches # {} => sinceBoot >= 5000
    /\ \A i, j \in 1..Len(launched) :
         \A k \in 1..Len(launched[i]), l \in 1..Len(launched[j]) :
            launched[i][k] = launched[j][l] => (i = j /\ k = l)

\* The batch and the follow-up have both been issued and the user denied the
\* background location.
C17_Witness ==
    /\ Cardinality(Batches) = 1 /\ Cardinality(FollowUps) = 1
    /\ ~batchPending /\ ~bgPending /\ ~bgGranted
    /\ last.op = "backgroundLocationResult"

\* C18: the grace-delay timer is started only while the app is neither
\* finishing nor destroyed, and the permission batch is issued only in such a
\* state: the runnable that finds the app finishing or destroyed issues
\* nothing.
C18_NoBatchWhenFinishing ==
    /\ [][(graceTimer < 0 /\ graceTimer' >= 0) => (~isFinishing /\ ~isDestroyed)]_vars
    /\ [][Cardinality(Batches') > Cardinality(Batches)
             => (~isFinishing /\ ~isDestroyed)]_vars
    /\ [][(GraceTimerFires /\ (isFinishing \/ isDestroyed))
             => (launched' = launched /\ ~batchPending' /\ ~last'.ret)]_vars

\* The runnable ran in a destroyed activity and issued nothing.
C18_Witness ==
    /\ last.op = "permissionRunnable" /\ ~last.ret
    /\ graceTimer = Fired /\ isDestroyed /\ launched = <<>>

\* C20: once onDestroy has run, the host no longer holds the registration of
\* the network callback and no exception has left the unregistration, also
\* when the host had already released the registration or returned no
\* connectivity service.
C20_UnregisteredOnTeardown ==
    isDestroyed => (~subscribed /\ ~raised)

\* onDestroy ran after the host had released the registration: the
\* unregistration threw and the exception was caught.
C20_Witness ==
    /\ isDestroyed /\ caught /\ ~raised /\ ~subscribed
    /\ last.op = "onDestroy"

(***************************************************************************)
(* Properties of the connectivity monitor (Spec)                           *)
(***************************************************************************)
\* C19: between two changes of connectivity the running shell handles at
\* most one Available and at most one Lost callback.
C19_OneDeliveryPerChange ==
    /\ availDelivered <= 1
    /\ lostDelivered <= 1

(***************************************************************************)
(* Properties of the file uploader system at teardown (SpecFileTeardown)   *)
(***************************************************************************)
\* C21: after onDestroy no file-chooser callback that the bridge accepted is
\* left unresolved: a callback pending at teardown has received a null result.
C21_NoPendingAfterDestroy ==
    isDestroyed => Pending = {}

(***************************************************************************)
(* Properties of the capability bridge (SpecBridge)                        *)
(***************************************************************************)
\* C22: no bridge capability that touches presentation or activity state
\* makes its change on the thread the bridge call arrived on: every such
\* change is made by a runnable on the UI thread.
C22_MutationsOnUiThread ==
    offUi = {}

\* C23: on both hosts, every close-app call that web content makes through
\* the bridge leaves the app terminating, whatever bridge calls came before.
C23_CloseAlwaysTerminates ==
    [][(\E a \in BOOLEAN : AndroidInvoke(CloseAppName, a) \/ IosInvoke(CloseAppName, a))
          => (isFinishing' \/ terminated')]_vars

\* C24: the capabilities web content can call are the same on both hosts, in
\* name and argument shape, and every message the iOS shim posts has a
\* registered handler of the same name.
C24_SameWireContract ==
    /\ \A h \in {"android", "ios"} : Callable(host) = Callable(h)
    /\ \A n \in IosShimNames : ShimPosts[n] = n /\ ShimPosts[n] \in IosHandlers

\* C25: bluetooth(false) leaves the adapter as it is, starts no enable dialog
\* and posts the instruction toast; bluetooth(true) leaves the adapter as it
\* is and starts the enable dialog only when the adapter is disabled.
C25_BluetoothNeverDisables ==
    [][\A a \in BOOLEAN :
          AndroidInvoke("bluetooth", a) =>
             /\ btAdapter' = btAdapter
             /\ ~a => /\ enableRequested' = enableRequested
                      /\ ~last'.ret
                      /\ uiQueue' = Append(uiQueue,
                                           Runnable("toast", "Please disable Bluetooth in Settings"))
             /\ (a /\ (last'.ret \/ enableRequested' # enableRequested)) => btAdapter = "off"]_vars

\* bluetooth(true) started the enable dialog with the adapter disabled.
C25_Witness ==
    /\ last.op = "bluetooth" /\ last.ret
    /\ enableRequested /\ btAdapter = "off"

\* C26: on both hosts a torch or biometric call on a device without that
\* hardware reports the failure (a toast on Android, the controller's error
\* report on iOS) and leaves the session running.
C26_MissingHardwareReported ==
    /\ [][\A a \in BOOLEAN :
             (AndroidInvoke("flashlight", a) /\ "torch" \notin hardware) =>
                /\ uiQueue' = Append(uiQueue, Runnable("toast", "Flashlight Error"))
                /\ isFinishing' = isFinishing]_vars
    /\ [][(UiRun /\ Head(uiQueue).run = "authenticate" /\ "biometric" \notin hardware
             /\ ~isFinishing) =>
                (last'.toast # "" /\ ~isFinishing')]_vars
    /\ [][\A a \in BOOLEAN :
             (IosInvoke("flashlight", a) /\ "torch" \notin hardware) =>
                (last'.toast # "" /\ ~terminated')]_vars
    /\ [][\A a \in BOOLEAN :
             (IosInvoke("loginBiometric", a) /\ "biometric" \notin hardware) =>
                (last'.toast # "" /\ ~terminated')]_vars

(***************************************************************************)
(* Properties of the generator (SpecGen)                                   *)
(***************************************************************************)
\* C27: whenever the Android build stage has started after bundle_website
\* returned, the top level of the asset bundle holds a root document
\* index.html, whatever the mirroring command left behind.
C27_BundleHasRootDocument == buildStarted => "index.html" \in assets

\* C28: at the end of every run of main (completed, ended by the asset
\* error handler, or failed in a build command) the work directory no
\* longer exists.
RunEnded == pc \in {"done", "exited", "crashed"}

C28_WorkDirGoneAtEnd == RunEnded => ~workDir


(***************************************************************************)
(* Properties of the file uploader system, continued (SpecFile)            *)
(***************************************************************************)
\* The launcher callback at position i of fcLog called onReceiveValue.
ResultDelivered(i) == i > 1 /\ fcLog[i - 1].ev = "onReceiveValue"

\* No request later than p was stored before position i.
NewestRequest(p, i) == ~\E j \in 1..i : fcLog[j].ev = "store" /\ fcLog[j].cb > p

LocalAssetUrls == {u \in Urls : Len(u) > 4 /\ u[1] = "file:" /\ u[4] = "android_asset"}

\* C30: after any sequence of page starts, offline boots and connectivity
\* events, lastLiveUrl never holds a local-asset (fallback) URL; the
\* configured remote URL LIVE_URL is not one.
C30_LastLiveUrlNeverLocal ==
    /\ LIVE_URL \notin LocalAssetUrls
    /\ lastLiveUrl \notin LocalAssetUrls

\* The app went offline and a page of the asset directory other than the
\* fallback document started, with the remote URL still remembered.
C30_Witness ==
    /\ isOffline
    /\ last.op = "onPageStarted"
    /\ last.url = LOCAL_PAGE
    /\ lastLiveUrl \in {LIVE_URL, OTHER_URL}


\* A step in which a load of the fallback document begins.
FallbackLoadBegins ==
    /\ navUrl' = LOCAL_URL
    /\ phase' = "requested"
    /\ <<navUrl, phase>> # <<navUrl', phase'>>

\* C31: the host itself loads the fallback document only at boot without
\* connectivity: a load of it begins only in onCreate with no network, or as
\* a navigation of the displayed page that the guard let through; no
\* connectivity event, load failure or blocked navigation begins one, and a
\* Lost event leaves the displayed URL, lastLiveUrl and isOffline unchanged.
C31_FallbackLoadOnlyAtBoot ==
    /\ [][FallbackLoadBegins =>
              \/ last'.op = "onCreate" /\ ~IsNetworkAvailable
              \/ last'.op = "shouldOverrideUrlLoading" /\ ~last'.ret]_vars
    /\ [][(\/ \E n \in Nets : OnAvailable(n)
           \/ \E n \in Nets : OnLost(n)
           \/ \E u \in Urls, m \in BOOLEAN : OnReceivedError(u, m)
           \/ \E u \in Urls : ShouldOverrideUrlLoading(u) /\ last'.ret)
              => ~FallbackLoadBegins]_vars
    /\ [][(\E n \in Nets : OnLost(n)) =>
              UNCHANGED <<url, navUrl, phase, lastLiveUrl, isOffline>>]_vars

\* The last network was lost after an online boot while a remote page was
\* displayed.
C31_Witness ==
    /\ last.op = "onLost"
    /\ ~IsNetworkAvailable
    /\ url = LIVE_URL
    /\ navUrl = LIVE_URL
    /\ ~isOffline


(***************************************************************************)
(* Properties of the exit guard, continued (SpecExit)                      *)
(***************************************************************************)
\* C32: while the app has not finished, the exit guard is armed exactly
\* when one disarm timer is pending, and never more than one is pending, so
\* the timer that ends an arming window is the one posted at that arming.
C32_ArmedIffOneTimer ==
    ~isFinishing =>
        /\ Len(exitTimers) <= 1
        /\ doubleBackToExitPressedOnce <=> Len(exitTimers) = 1

\* Well after boot the guard is armed and its one timer is half-way through
\* the window.
C32_Witness ==
    /\ ~isFinishing
    /\ doubleBackToExitPressedOnce
    /\ Len(exitTimers) = 1
    /\ exitTimers[1] = 1000
    /\ sinceBack = 1000
    /\ sinceBoot > EXIT_WINDOW + 1000


(***************************************************************************)
(* Properties of the connectivity monitor, continued (Spec)                *)
(***************************************************************************)
\* C33: once the app is finishing, an Available or Lost event that is still
\* delivered starts no navigation and changes no navigation state: the
\* displayed and the requested URL, the load phase, lastLiveUrl, isOffline
\* and the progress indicator stay as they are, and nothing is shown.
C33_FinishingIgnoresConnectivity ==
    [][(isFinishing /\ \E n \in Nets : OnAvailable(n) \/ OnLost(n)) =>
           /\ UNCHANGED <<url, navUrl, phase, lastLiveUrl, isOffline, progressVisible>>
           /\ last'.url = NoUrl
           /\ last'.toast = ""]_vars

\* The app booted offline, showed the fallback document and was closed;
\* the network then came back and the event was delivered.
C33_Witness ==
    /\ isFinishing
    /\ last.op = "onAvailable"
    /\ isOffline
    /\ url = LOCAL_URL
    /\ navUrl = LOCAL_URL
    /\ phase = "finished"

====
